---------------------------- MODULE Spec2Model ----------------------------
(***************************************************************************)
(* Model of index.ts of kcg-code-translator: the KCG deck-code decoder     *)
(* decodeKcgDeckCode (a pure function, modelled phase by phase with its    *)
(* local variables as state) and the card-image cache loadCardImage.       *)
(*                                                                         *)
(* Strings are sequences of one-character strings, so that indexing,       *)
(* substring, split/splice/join and the regular expression are modelled by *)
(* what they do.                                                           *)
(***************************************************************************)
EXTENDS Integers, Sequences, FiniteSets, TLC

VARIABLES
    \* ---- decodeKcgDeckCode: the argument and the locals, by phase ----
    deckCode,                     \* the argument
    pc,                           \* position in decodeKcgDeckCode
    result,                       \* "none" | "ok" (returned) | "error" (thrown)
    errorKind,                    \* which throw statement fired
    errorChar,                    \* the character interpolated in the message
    rawPayloadWithVersion,
    indexFifthChar,
    charsToRemoveFromPayloadEnd,
    initialBinaryPayload,
    processedBinaryPayload,
    i,                            \* loop index of phases 5 and 7 (0-based)
    tenBitChunk,
    signedDecimalVal,
    nVal,
    formattedNVal,
    intermediateString,
    adjustedString,
    finalNumericString,
    decodedEntries,
    e,                            \* number of entries consumed by phase 8
    deckListOutput,
    \* ---- loadCardImage ----
    imageCache,                   \* Map keys in insertion order
    pendingLoads,                 \* keys of the pendingLoads Map
    calls,                        \* per caller: position in loadCardImage and path
    lastOutcome                   \* how the call that completed last ended

decoderVars ==
    << deckCode, pc, result, errorKind, errorChar, rawPayloadWithVersion,
       indexFifthChar, charsToRemoveFromPayloadEnd, initialBinaryPayload,
       processedBinaryPayload, i, tenBitChunk, signedDecimalVal, nVal,
       formattedNVal, intermediateString, adjustedString, finalNumericString,
       decodedEntries, e, deckListOutput >>

cacheVars == << imageCache, pendingLoads, calls, lastOutcome >>

vars == << decoderVars, cacheVars >>

-----------------------------------------------------------------------------
(* Constants of index.ts *)

CHAR_MAP ==
    << "A","I","Q","Y","g","o","w","5","B","J","R","Z","h","p","x","6",
       "C","K","S","a","i","q","y","7","D","L","T","b","j","r","z","8",
       "E","M","U","c","k","s","1","9","F","N","V","d","l","t","2","!",
       "G","O","W","e","m","u","3","?","H","P","X","f","n","v","4","/" >>

MAP1_EXPANSION == << "e","A","B","C","D","E","F","G","H","I" >>
MAP2_EXPANSION == << "p","J","K","L","M","N","O","P","Q","R" >>

\* VALID_CARD_ID_RE = /^(?:ex|prm|[A-R])[ASMD]-(?:[1-9]|[1-4][0-9]|50)$/ as a predicate
VALID_CARD_ID_RE(s) ==
    LET sets == { << "e","x" >>, << "p","r","m" >> }
                \cup { << l >> : l \in { "A","B","C","D","E","F","G","H","I",
                                         "J","K","L","M","N","O","P","Q","R" } }
        types == { "A", "S", "M", "D" }
        numbers == { << d >> : d \in { "1","2","3","4","5","6","7","8","9" } }
                   \cup { << a, b >> : a \in { "1","2","3","4" },
                                       b \in { "0","1","2","3","4","5","6","7","8","9" } }
                   \cup { << "5","0" >> }
    IN  \E set \in sets, type \in types, number \in numbers :
            s = set \o << type >> \o << "-" >> \o number

Marker == << "K","C","G","-" >>
MarkerLen == 4
SixBits == 6
GroupBits == 10
TwoPow10 == 1024
NBase == 500
ChunkLen == 5
MAX_IMAGE_CACHE == 128

\* parseInt's result on a character that is no digit
NaN == -1

DigitChars == << "0","1","2","3","4","5","6","7","8","9" >>

-----------------------------------------------------------------------------
(* JavaScript string and number primitives used by the decoder *)

Range(s) == { s[k] : k \in DOMAIN s }

\* String.prototype.indexOf for a one-character needle: 0-based, -1 if absent
IndexOf(s, ch) ==
    IF \E k \in DOMAIN s : s[k] = ch
    THEN (CHOOSE k \in DOMAIN s : s[k] = ch /\ \A j \in 1..(k-1) : s[j] # ch) - 1
    ELSE -1

\* String.prototype.startsWith
StartsWith(s, p) == Len(s) >= Len(p) /\ SubSeq(s, 1, Len(p)) = p

\* String.prototype.substring(from) and substring(from, to), 0-based, to exclusive
SubstringFrom(s, from) == SubSeq(s, from + 1, Len(s))
Substring(s, from, to) == SubSeq(s, from + 1, IF to > Len(s) THEN Len(s) ELSE to)

\* Number.prototype.toString(2) for n >= 0
RECURSIVE ToBinaryString(_)
ToBinaryString(n) ==
    IF n < 2 THEN << DigitChars[n + 1] >>
    ELSE ToBinaryString(n \div 2) \o << DigitChars[(n % 2) + 1] >>

\* String.prototype.padStart(len, ch)
RECURSIVE PadStart(_, _, _)
PadStart(s, len, ch) == IF Len(s) >= len THEN s ELSE PadStart(<< ch >> \o s, len, ch)

\* parseInt(bits, 2) on a string of "0"/"1"
RECURSIVE ParseIntBinary(_)
ParseIntBinary(bits) ==
    IF bits = << >> THEN 0
    ELSE 2 * ParseIntBinary(SubSeq(bits, 1, Len(bits) - 1))
         + (IF bits[Len(bits)] = "1" THEN 1 ELSE 0)

\* Number.prototype.toString() for an integer
RECURSIVE NatToString(_)
NatToString(n) ==
    IF n < 10 THEN << DigitChars[n + 1] >>
    ELSE NatToString(n \div 10) \o << DigitChars[(n % 10) + 1] >>

NumToString(n) == IF n < 0 THEN << "-" >> \o NatToString(0 - n) ELSE NatToString(n)

\* parseInt(ch, 10) on a single character
ParseIntDecimal(ch) ==
    IF ch \in Range(DigitChars) THEN IndexOf(DigitChars, ch) ELSE NaN

\* Array.prototype.splice(at, count) on a 0-based index: the array that remains
Splice(arr, at, count) ==
    SubSeq(arr, 1, at) \o SubSeq(arr, at + count + 1, Len(arr))

\* String.prototype.replace(/X/g, "0")
ReplaceXByZero(s) == [ k \in DOMAIN s |-> IF s[k] = "X" THEN "0" ELSE s[k] ]


\* Array.prototype.splice(start, count) when start is negative counts from the end
SpliceFrom(arr, start, count) ==
    LET at == IF start < 0
              THEN (IF Len(arr) + start < 0 THEN 0 ELSE Len(arr) + start)
              ELSE start
    IN  Splice(arr, at, count)

\* Relational operators on numbers: every comparison with NaN is false
JsGE(a, b) == a # NaN /\ b # NaN /\ a >= b
JsLE(a, b) == a # NaN /\ b # NaN /\ a <= b
JsLT(a, b) == a # NaN /\ b # NaN /\ a < b
JsGT(a, b) == a # NaN /\ b # NaN /\ a > b

\* Template-literal rendering of a number
NumberToTemplate(n) == IF n = NaN THEN << "N","a","N" >> ELSE NumToString(n)

\* Template-literal rendering of the value undefined
UndefinedText == << "u","n","d","e","f","i","n","e","d" >>

-----------------------------------------------------------------------------
(* decodeKcgDeckCode, phase 1: input check *)

\* for (const char of rawPayloadWithVersion): 1-based position of the first
\* character with CHAR_MAP.indexOf(char) === -1, 0 when there is none
RECURSIVE FirstInvalidIndex(_, _)
FirstInvalidIndex(raw, k) ==
    IF k > Len(raw) THEN 0
    ELSE IF IndexOf(CHAR_MAP, raw[k]) = -1 THEN k
    ELSE FirstInvalidIndex(raw, k + 1)

\* a scan that reports the last offending character instead of the first
LastInvalid(raw) ==
    IF \E k \in DOMAIN raw : IndexOf(CHAR_MAP, raw[k]) = -1
    THEN CHOOSE k \in DOMAIN raw :
             /\ IndexOf(CHAR_MAP, raw[k]) = -1
             /\ \A j \in (k + 1)..Len(raw) : IndexOf(CHAR_MAP, raw[j]) # -1
    ELSE 0

FirstInvalid(raw) == FirstInvalidIndex(raw, 1)

\* Strategy P2 in place of the code's computation
PaddingBitsP2(indexFifth) == (8 - (indexFifth % 8)) % 8

(* phase 2: number of padding bits *)
PaddingBits(indexFifth) ==
    LET quotient  == indexFifth \div 8
        remainder == indexFifth % 8
    IN  IF remainder = 0 THEN 0 ELSE 8 - (quotient + 1)

(* phase 3: payload to 6-bit binary string *)
SixBitString(ch) == PadStart(ToBinaryString(IndexOf(CHAR_MAP, ch)), SixBits, "0")

RECURSIVE AssembleBits(_)
AssembleBits(payload) ==
    IF payload = << >> THEN << >>
    ELSE AssembleBits(SubSeq(payload, 1, Len(payload) - 1))
         \o SixBitString(payload[Len(payload)])

\* padding removal without the branch for a bit string shorter than the padding
RemovePaddingNoEmpty(bits, toRemove) ==
    IF toRemove > 0 /\ Len(bits) >= toRemove
    THEN Substring(bits, 0, Len(bits) - toRemove)
    ELSE bits

(* phase 4: padding removal *)
RemovePadding(bits, toRemove) ==
    IF toRemove > 0 /\ Len(bits) >= toRemove
    THEN Substring(bits, 0, Len(bits) - toRemove)
    ELSE IF toRemove > 0 THEN << >>
    ELSE bits

(* phase 5: one ten-bit group *)
SignedValue(chunk) ==
    IF chunk[1] = "1" THEN ParseIntBinary(chunk) - TwoPow10 ELSE ParseIntBinary(chunk)

\* token formatting that pads from 1 instead of 0
FormatNValFromOne(n) ==
    IF n > 0 /\ n < 10 THEN << "X","X" >> \o NumToString(n)
    ELSE IF n >= 10 /\ n < 100 THEN << "X" >> \o NumToString(n)
    ELSE NumToString(n)

FormatNVal(n) ==
    IF n >= 0 /\ n < 10 THEN << "X","X" >> \o NumToString(n)
    ELSE IF n >= 10 /\ n < 100 THEN << "X" >> \o NumToString(n)
    ELSE NumToString(n)

(* phase 6: length adjustment to a multiple of five *)

\* the for loop over stringAsArray from its end: idx is the 0-based loop index
RECURSIVE RemoveXFromEnd(_, _, _, _)
RemoveXFromEnd(arr, idx, removedXCount, toRemove) ==
    IF idx >= 0 /\ removedXCount < toRemove
    THEN IF arr[idx + 1] = "X"
         THEN RemoveXFromEnd(Splice(arr, idx, 1), idx - 1, removedXCount + 1, toRemove)
         ELSE RemoveXFromEnd(arr, idx - 1, removedXCount, toRemove)
    ELSE [ arr |-> arr, removedXCount |-> removedXCount ]

\* Policy T1: drop the last characters unconditionally
AdjustLengthT1(s) == SubSeq(s, 1, Len(s) - (Len(s) % ChunkLen))

\* the placeholder scan without the fallback to real trailing characters
AdjustLengthNoFallback(s) ==
    IF Len(s) % ChunkLen # 0
    THEN RemoveXFromEnd(s, Len(s) - 1, 0, Len(s) % ChunkLen).arr
    ELSE s

AdjustLength(s) ==
    LET remainderForFive == Len(s) % ChunkLen
    IN  IF remainderForFive # 0
        THEN LET scan == RemoveXFromEnd(s, Len(s) - 1, 0, remainderForFive)
                 remaining == remainderForFive - scan.removedXCount
             IN  IF remaining > 0
                 THEN SpliceFrom(scan.arr, Len(scan.arr) - remaining, remaining)
                 ELSE scan.arr
        ELSE s

(* phase 7: one five-digit chunk *)
Skipped == [ survives |-> FALSE, cardIdPart |-> << >>, originalC5Value |-> 0 ]

TypeLetter(c2) ==
    CASE c2 = 1 -> << "A" >>
      [] c2 = 2 -> << "S" >>
      [] c2 = 3 -> << "M" >>
      [] c2 = 4 -> << "D" >>
      [] OTHER  -> << >>

ExpansionOf(expansionMap, c1) ==
    IF c1 = NaN \/ c1 >= Len(expansionMap) THEN UndefinedText
    ELSE LET selectedCharFromMap == expansionMap[c1 + 1]
         IN  IF selectedCharFromMap = "e" THEN << "e","x" >>
             ELSE IF selectedCharFromMap = "p" THEN << "p","r","m" >>
             ELSE << selectedCharFromMap >>

\* the two digits of the number taken in the wrong order
NumberPartSwapped(c3, c4) == IF c3 = NaN \/ c4 = NaN THEN NaN ELSE c4 * 10 + c3

NumberPart(c3, c4) == IF c3 = NaN \/ c4 = NaN THEN NaN ELSE c3 * 10 + c4

ChunkDecode(fiveDigitChunk) ==
    LET c1 == ParseIntDecimal(fiveDigitChunk[1])
        c2 == ParseIntDecimal(fiveDigitChunk[2])
        c3 == ParseIntDecimal(fiveDigitChunk[3])
        c4 == ParseIntDecimal(fiveDigitChunk[4])
        c5 == ParseIntDecimal(fiveDigitChunk[5])
        expansionMap == IF JsGE(c5, 1) /\ JsLE(c5, 4) THEN MAP1_EXPANSION
                        ELSE MAP2_EXPANSION
        numberPartInt == NumberPart(c3, c4)
    IN  IF ~(JsGE(c5, 1) /\ JsLE(c5, 4)) /\ ~(JsGE(c5, 6) /\ JsLE(c5, 9)) THEN Skipped
        ELSE IF JsGE(c1, Len(expansionMap)) THEN Skipped
        ELSE IF c2 \notin 1..4 THEN Skipped
        ELSE IF JsLT(numberPartInt, 1) \/ JsGT(numberPartInt, 50) THEN Skipped
        ELSE [ survives |-> TRUE,
               cardIdPart |-> ExpansionOf(expansionMap, c1) \o TypeLetter(c2)
                              \o << "-" >> \o NumberToTemplate(numberPartInt),
               originalC5Value |-> c5 ]

(* phase 8: one decoded entry, pushed repeatCount times *)
RECURSIVE Repeat(_, _)
Repeat(x, n) == IF n <= 0 THEN << >> ELSE << x >> \o Repeat(x, n - 1)

\* the repeat count without the reduction modulo 5
RepeatCountRaw(entry) == entry.originalC5Value

RepeatCount(entry) == entry.originalC5Value % ChunkLen

-----------------------------------------------------------------------------
(* The steps of decodeKcgDeckCode *)

Throw(kind, ch) ==
    /\ pc' = "thrown"
    /\ result' = "error"
    /\ errorKind' = kind
    /\ errorChar' = ch

FormatValidation ==
    /\ pc = "validate"
    /\ LET raw == SubstringFrom(deckCode, MarkerLen)
           bad == FirstInvalid(raw)
       IN  IF deckCode = << >> \/ ~StartsWith(deckCode, Marker)
           THEN /\ Throw("marker", "")
                /\ UNCHANGED rawPayloadWithVersion
           ELSE /\ rawPayloadWithVersion' = raw
                /\ IF Len(raw) = 0 THEN Throw("emptyPayload", "")
                   ELSE IF bad # 0 THEN Throw("invalidChar", raw[bad])
                   ELSE /\ pc' = "padding"
                        /\ UNCHANGED << result, errorKind, errorChar >>
    /\ UNCHANGED << deckCode, indexFifthChar, charsToRemoveFromPayloadEnd,
                    initialBinaryPayload, processedBinaryPayload, i, tenBitChunk,
                    signedDecimalVal, nVal, formattedNVal, intermediateString,
                    adjustedString, finalNumericString, decodedEntries, e,
                    deckListOutput >>
    /\ UNCHANGED cacheVars

PaddingComputation ==
    /\ pc = "padding"
    /\ indexFifthChar' = IndexOf(CHAR_MAP, rawPayloadWithVersion[1]) + 1
    /\ charsToRemoveFromPayloadEnd' = PaddingBits(indexFifthChar')
    /\ pc' = "bits"
    /\ UNCHANGED << deckCode, result, errorKind, errorChar, rawPayloadWithVersion,
                    initialBinaryPayload, processedBinaryPayload, i, tenBitChunk,
                    signedDecimalVal, nVal, formattedNVal, intermediateString,
                    adjustedString, finalNumericString, decodedEntries, e,
                    deckListOutput >>
    /\ UNCHANGED cacheVars

BitAssembly ==
    /\ pc = "bits"
    /\ initialBinaryPayload' = AssembleBits(SubstringFrom(rawPayloadWithVersion, 1))
    /\ pc' = "unpad"
    /\ UNCHANGED << deckCode, result, errorKind, errorChar, rawPayloadWithVersion,
                    indexFifthChar, charsToRemoveFromPayloadEnd,
                    processedBinaryPayload, i, tenBitChunk,
                    signedDecimalVal, nVal, formattedNVal, intermediateString,
                    adjustedString, finalNumericString, decodedEntries, e,
                    deckListOutput >>
    /\ UNCHANGED cacheVars

PaddingRemoval ==
    /\ pc = "unpad"
    /\ processedBinaryPayload' =
           RemovePadding(initialBinaryPayload, charsToRemoveFromPayloadEnd)
    /\ i' = 0
    /\ pc' = "groups"
    /\ UNCHANGED << deckCode, result, errorKind, errorChar, rawPayloadWithVersion,
                    indexFifthChar, charsToRemoveFromPayloadEnd,
                    initialBinaryPayload, tenBitChunk,
                    signedDecimalVal, nVal, formattedNVal, intermediateString,
                    adjustedString, finalNumericString, decodedEntries, e,
                    deckListOutput >>
    /\ UNCHANGED cacheVars

GroupStep ==
    /\ pc = "groups"
    /\ i + GroupBits <= Len(processedBinaryPayload)
    /\ tenBitChunk' = Substring(processedBinaryPayload, i, i + GroupBits)
    /\ signedDecimalVal' = SignedValue(tenBitChunk')
    /\ nVal' = NBase - signedDecimalVal'
    /\ formattedNVal' = FormatNVal(nVal')
    /\ intermediateString' = intermediateString \o formattedNVal'
    /\ i' = i + GroupBits
    /\ UNCHANGED << deckCode, pc, result, errorKind, errorChar,
                    rawPayloadWithVersion, indexFifthChar,
                    charsToRemoveFromPayloadEnd, initialBinaryPayload,
                    processedBinaryPayload, adjustedString, finalNumericString,
                    decodedEntries, e, deckListOutput >>
    /\ UNCHANGED cacheVars

GroupsDone ==
    /\ pc = "groups"
    /\ ~(i + GroupBits <= Len(processedBinaryPayload))
    /\ pc' = "adjust"
    /\ UNCHANGED << deckCode, result, errorKind, errorChar,
                    rawPayloadWithVersion, indexFifthChar,
                    charsToRemoveFromPayloadEnd, initialBinaryPayload,
                    processedBinaryPayload, i, tenBitChunk, signedDecimalVal, nVal,
                    formattedNVal, intermediateString, adjustedString,
                    finalNumericString, decodedEntries, e, deckListOutput >>
    /\ UNCHANGED cacheVars

DigitAdjustment ==
    /\ pc = "adjust"
    /\ adjustedString' = AdjustLength(intermediateString)
    /\ finalNumericString' = ReplaceXByZero(adjustedString')
    /\ IF Len(finalNumericString') % ChunkLen # 0
       THEN Throw("lengthNotMultipleOf5", "") /\ UNCHANGED i
       ELSE /\ pc' = "chunks"
            /\ i' = 0
            /\ UNCHANGED << result, errorKind, errorChar >>
    /\ UNCHANGED << deckCode, rawPayloadWithVersion, indexFifthChar,
                    charsToRemoveFromPayloadEnd, initialBinaryPayload,
                    processedBinaryPayload, tenBitChunk, signedDecimalVal, nVal,
                    formattedNVal, intermediateString, decodedEntries, e,
                    deckListOutput >>
    /\ UNCHANGED cacheVars

ChunkStep ==
    /\ pc = "chunks"
    /\ i < Len(finalNumericString)
    /\ LET entry == ChunkDecode(Substring(finalNumericString, i, i + ChunkLen))
       IN  decodedEntries' =
               IF entry.survives
               THEN Append(decodedEntries,
                           [ cardIdPart |-> entry.cardIdPart,
                             originalC5Value |-> entry.originalC5Value ])
               ELSE decodedEntries
    /\ i' = i + ChunkLen
    /\ UNCHANGED << deckCode, pc, result, errorKind, errorChar,
                    rawPayloadWithVersion, indexFifthChar,
                    charsToRemoveFromPayloadEnd, initialBinaryPayload,
                    processedBinaryPayload, tenBitChunk, signedDecimalVal, nVal,
                    formattedNVal, intermediateString, adjustedString,
                    finalNumericString, e, deckListOutput >>
    /\ UNCHANGED cacheVars

ChunksDone ==
    /\ pc = "chunks"
    /\ ~(i < Len(finalNumericString))
    /\ pc' = "output"
    /\ e' = 0
    /\ UNCHANGED << deckCode, result, errorKind, errorChar,
                    rawPayloadWithVersion, indexFifthChar,
                    charsToRemoveFromPayloadEnd, initialBinaryPayload,
                    processedBinaryPayload, i, tenBitChunk, signedDecimalVal, nVal,
                    formattedNVal, intermediateString, adjustedString,
                    finalNumericString, decodedEntries, deckListOutput >>
    /\ UNCHANGED cacheVars

OutputStep ==
    /\ pc = "output"
    /\ e < Len(decodedEntries)
    /\ LET entry == decodedEntries[e + 1]
       IN  deckListOutput' =
               deckListOutput \o Repeat(entry.cardIdPart, RepeatCount(entry))
    /\ e' = e + 1
    /\ UNCHANGED << deckCode, pc, result, errorKind, errorChar,
                    rawPayloadWithVersion, indexFifthChar,
                    charsToRemoveFromPayloadEnd, initialBinaryPayload,
                    processedBinaryPayload, i, tenBitChunk, signedDecimalVal, nVal,
                    formattedNVal, intermediateString, adjustedString,
                    finalNumericString, decodedEntries >>
    /\ UNCHANGED cacheVars

Return ==
    /\ pc = "output"
    /\ ~(e < Len(decodedEntries))
    /\ pc' = "returned"
    /\ result' = "ok"
    /\ UNCHANGED << deckCode, errorKind, errorChar,
                    rawPayloadWithVersion, indexFifthChar,
                    charsToRemoveFromPayloadEnd, initialBinaryPayload,
                    processedBinaryPayload, i, tenBitChunk, signedDecimalVal, nVal,
                    formattedNVal, intermediateString, adjustedString,
                    finalNumericString, decodedEntries, e, deckListOutput >>
    /\ UNCHANGED cacheVars

-----------------------------------------------------------------------------
(* loadCardImage: the image cache.  A path is a number: PlaceholderPath is   *)
(* placeholder.webp, the others are cards/<cardId>.webp.  The states of the  *)
(* model are the points where the event loop may run another callback: the   *)
(* awaits of loadCardImage.                                                  *)

PlaceholderPath == 0

\* Map.prototype.set on the keys, in insertion order: an existing key keeps its place
MapSet(keys, k) == IF k \in Range(keys) THEN keys ELSE Append(keys, k)

\* imageCache.keys().next().value, then delete
DeleteOldest(keys) == Tail(keys)

\* imageCache.set(abs, img) and the size check that follows it
CacheAfterLoad(keys, abs) ==
    LET added == MapSet(keys, abs)
    IN  IF Len(added) > MAX_IMAGE_CACHE THEN DeleteOldest(added) ELSE added

\* the catch branch's imageCache.set(abs, phCached)
CacheAfterFallback(keys, abs) == MapSet(keys, abs)

\* the catch branch's imageCache.set(phPath, ph); imageCache.set(abs, ph)
CacheAfterPlaceholderLoad(keys, abs) == MapSet(MapSet(keys, PlaceholderPath), abs)

Idle == [ pc |-> "idle", path |-> PlaceholderPath ]

\* callers awaiting the promise of abs resume when it settles
Settle(cs, abs) ==
    [ c \in DOMAIN cs |->
        IF cs[c].path = abs /\ cs[c].pc # "idle" THEN Idle ELSE cs[c] ]

\* lines 17-23 and 53: a call up to its first await
LoadCardImage(c, abs) ==
    /\ calls[c].pc = "idle"
    /\ IF abs \in Range(imageCache)
       THEN /\ lastOutcome' = "hit"
            /\ UNCHANGED << imageCache, pendingLoads, calls >>
       ELSE IF abs \in pendingLoads
       THEN /\ calls' = [ calls EXCEPT ![c] = [ pc |-> "awaitInflight", path |-> abs ] ]
            /\ UNCHANGED << imageCache, pendingLoads, lastOutcome >>
       ELSE /\ calls' = [ calls EXCEPT ![c] = [ pc |-> "awaitLoad", path |-> abs ] ]
            /\ pendingLoads' = pendingLoads \cup { abs }
            /\ UNCHANGED << imageCache, lastOutcome >>
    /\ UNCHANGED decoderVars

\* lines 26-32, 49-51: loadImage(abs) fulfilled
LoadFulfilled(c) ==
    /\ calls[c].pc = "awaitLoad"
    /\ imageCache' = CacheAfterLoad(imageCache, calls[c].path)
    /\ pendingLoads' = pendingLoads \ { calls[c].path }
    /\ calls' = Settle(calls, calls[c].path)
    /\ lastOutcome' = "loaded"
    /\ UNCHANGED decoderVars

\* lines 33-41, 49-51: loadImage(abs) rejected
LoadRejected(c) ==
    /\ calls[c].pc = "awaitLoad"
    /\ IF PlaceholderPath \in Range(imageCache)
       THEN /\ imageCache' = CacheAfterFallback(imageCache, calls[c].path)
            /\ pendingLoads' = pendingLoads \ { calls[c].path }
            /\ calls' = Settle(calls, calls[c].path)
            /\ lastOutcome' = "fallback"
       ELSE /\ calls' = [ calls EXCEPT ![c].pc = "awaitPlaceholder" ]
            /\ UNCHANGED << imageCache, pendingLoads, lastOutcome >>
    /\ UNCHANGED decoderVars

\* lines 41-44, 49-51: loadImage(phPath) fulfilled
PlaceholderFulfilled(c) ==
    /\ calls[c].pc = "awaitPlaceholder"
    /\ imageCache' = CacheAfterPlaceholderLoad(imageCache, calls[c].path)
    /\ pendingLoads' = pendingLoads \ { calls[c].path }
    /\ calls' = Settle(calls, calls[c].path)
    /\ lastOutcome' = "fallback"
    /\ UNCHANGED decoderVars

\* lines 45-51: loadImage(phPath) rejected, the call throws
PlaceholderRejected(c) ==
    /\ calls[c].pc = "awaitPlaceholder"
    /\ pendingLoads' = pendingLoads \ { calls[c].path }
    /\ calls' = Settle(calls, calls[c].path)
    /\ lastOutcome' = "thrown"
    /\ UNCHANGED imageCache
    /\ UNCHANGED decoderVars

-----------------------------------------------------------------------------
(* Bounds and inputs *)

MaxPayloadLen == 5        \* payload characters of a well-formed input
MaxBadPayloadLen == 3     \* payload characters of an input with foreign characters
MaxPadData == 2           \* data characters after each of the 64 descriptors
MaxGroups == 4            \* sample ten-bit groups per input
MaxCallers == 2           \* concurrent calls of loadCardImage
ExtraPaths == 2           \* card paths beyond the cache's capacity

SeqsUpTo(S, n) == UNION { [ 1..k -> S ] : k \in 0..n }

ValidChars == { "8", "x", "1", "v", "w" }
ForeignChars == { "@", "#" }
BadPrefixes == { << >>, << "K","C","G" >>, << "X","Y","Z","Z" >> }
PadDataChars == { "A", "q", "/" }
SampleNs == { 5, 42, -1, -11, 1000, 343, 706, 657 }

\* the ten-bit two's-complement group whose value v gives n = NBase - v
GroupOf(n) ==
    PadStart(ToBinaryString((NBase - n + TwoPow10) % TwoPow10), GroupBits, "0")

RECURSIVE Concat(_)
Concat(ss) == IF ss = << >> THEN << >> ELSE ss[1] \o Concat(Tail(ss))

\* a payload whose bit string, once its padding is removed, is bits: the bits are
\* zero-padded to whole characters and the descriptor asks for the padding's removal
PayloadFor(bits) ==
    LET pad == (SixBits - (Len(bits) % SixBits)) % SixBits
        padded == bits \o [ k \in 1..pad |-> "0" ]
        descriptor == CHAR_MAP[CHOOSE N \in 1..Len(CHAR_MAP) : PaddingBits(N) = pad]
    IN  << descriptor >> \o
        [ k \in 1..(Len(padded) \div SixBits) |->
            CHAR_MAP[ParseIntBinary(SubSeq(padded, SixBits * (k - 1) + 1, SixBits * k)) + 1] ]

Callers == 1..MaxCallers
RequestPaths == { 1 } \cup ((MAX_IMAGE_CACHE + 1)..(MAX_IMAGE_CACHE + ExtraPaths))

-----------------------------------------------------------------------------
(* Initial states *)

CacheIdle ==
    /\ imageCache = << >>
    /\ pendingLoads = { }
    /\ calls = [ c \in Callers |-> Idle ]
    /\ lastOutcome = "none"

Locals(position) ==
    /\ pc = position
    /\ result = "none"
    /\ errorKind = ""
    /\ errorChar = ""
    /\ rawPayloadWithVersion = << >>
    /\ indexFifthChar = 0
    /\ charsToRemoveFromPayloadEnd = 0
    /\ initialBinaryPayload = << >>
    /\ processedBinaryPayload = << >>
    /\ i = 0
    /\ tenBitChunk = << >>
    /\ signedDecimalVal = 0
    /\ nVal = 0
    /\ formattedNVal = << >>
    /\ intermediateString = << >>
    /\ adjustedString = << >>
    /\ decodedEntries = << >>
    /\ e = 0
    /\ deckListOutput = << >>

\* decodeKcgDeckCode is called on short strings over a few characters
Init ==
    /\ deckCode \in
         { Marker \o p : p \in SeqsUpTo(ValidChars, MaxPayloadLen) }
         \cup { Marker \o p : p \in SeqsUpTo(ValidChars \cup ForeignChars, MaxBadPayloadLen) }
         \cup { b \o p : b \in BadPrefixes,
                         p \in SeqsUpTo(ValidChars \cup ForeignChars, MaxBadPayloadLen) }
    /\ Locals("validate")
    /\ finalNumericString = << >>
    /\ CacheIdle

\* ... on every padding descriptor followed by a few data characters
InitPad ==
    /\ deckCode \in
         { Marker \o << d >> \o p : d \in Range(CHAR_MAP),
                                   p \in SeqsUpTo(PadDataChars, MaxPadData) }
    /\ Locals("validate")
    /\ finalNumericString = << >>
    /\ CacheIdle

\* ... on every single ten-bit group, and on sequences of sample groups
InitDigits ==
    /\ deckCode \in
         { Marker \o PayloadFor(GroupOf(n)) : n \in (NBase - 511)..(NBase + 512) }
         \cup { Marker \o PayloadFor(Concat([ k \in DOMAIN ns |-> GroupOf(ns[k]) ])) :
                  ns \in SeqsUpTo(SampleNs, MaxGroups) }
    /\ Locals("validate")
    /\ finalNumericString = << >>
    /\ CacheIdle

\* phase 7 on every five-digit chunk
InitChunk ==
    /\ deckCode = << >>
    /\ Locals("chunks")
    /\ finalNumericString \in [ 1..ChunkLen -> Range(DigitChars) ]
    /\ CacheIdle

\* loadCardImage with the cache holding the first k card images
InitCache ==
    /\ deckCode = << >>
    /\ Locals("notCalled")
    /\ finalNumericString = << >>
    /\ \E k \in 0..MAX_IMAGE_CACHE :
         /\ imageCache = [ j \in 1..k |-> j ]
         /\ lastOutcome = IF k = 0 THEN "none" ELSE "loaded"
    /\ pendingLoads = { }
    /\ calls = [ c \in Callers |-> Idle ]

-----------------------------------------------------------------------------
(* Specifications *)

Next ==
    \/ FormatValidation
    \/ PaddingComputation
    \/ BitAssembly
    \/ PaddingRemoval
    \/ GroupStep
    \/ GroupsDone
    \/ DigitAdjustment
    \/ ChunkStep
    \/ ChunksDone
    \/ OutputStep
    \/ Return

NextPad ==
    \/ FormatValidation
    \/ PaddingComputation
    \/ BitAssembly
    \/ PaddingRemoval

NextChunk ==
    \/ ChunkStep
    \/ ChunksDone
    \/ OutputStep
    \/ Return

NextCache ==
    \/ \E c \in Callers, abs \in RequestPaths : LoadCardImage(c, abs)
    \/ \E c \in Callers : LoadFulfilled(c)
    \/ \E c \in Callers : LoadRejected(c)
    \/ \E c \in Callers : PlaceholderFulfilled(c)
    \/ \E c \in Callers : PlaceholderRejected(c)

Spec == Init /\ [][Next]_vars
SpecPad == InitPad /\ [][NextPad]_vars
SpecDigits == InitDigits /\ [][Next]_vars
SpecChunk == InitChunk /\ [][NextChunk]_vars
SpecCache == InitCache /\ [][NextCache]_vars

-----------------------------------------------------------------------------
(* Properties.  They read the argument and the results of the steps, and    *)
(* state what the results must be in terms of the argument.                  *)

Alphabet == Range(CHAR_MAP)
HasMarker == Len(deckCode) >= 4 /\ \A k \in 1..4 : deckCode[k] = Marker[k]
ForeignPositions == { k \in 5..Len(deckCode) : deckCode[k] \notin Alphabet }
WellFormed == HasMarker /\ Len(deckCode) > 4 /\ ForeignPositions = { }
FirstForeign == CHOOSE k \in ForeignPositions : \A j \in ForeignPositions : k <= j

\* C1: an input without the marker "KCG-", with an empty payload or with a
\* payload character outside the alphabet is rejected by a format error, with
\* no card list; for a foreign character the error names the first one.
C1_FormatErrors ==
    (pc # "validate" /\ ~WellFormed) =>
        /\ pc = "thrown"
        /\ result = "error"
        /\ errorKind \in { "marker", "emptyPayload", "invalidChar" }
        /\ decodedEntries = << >>
        /\ deckListOutput = << >>
        /\ (HasMarker /\ ForeignPositions # { }) =>
               /\ errorKind = "invalidChar"
               /\ errorChar = deckCode[FirstForeign]

C1_Witness ==
    /\ pc = "thrown"
    /\ errorKind = "invalidChar"
    /\ Cardinality({ deckCode[k] : k \in ForeignPositions }) = 2
    /\ FirstForeign > 5

\* C2: every element of a returned sequence matches the card-identifier
\* grammar ^(ex|prm|[A-R])[ASMD]-([1-9]|[1-4][0-9]|50)$.
C2_OutputMatchesGrammar ==
    result = "ok" =>
        \A k \in DOMAIN deckListOutput : VALID_CARD_ID_RE(deckListOutput[k])

\* the value of a decimal digit character
DigitValue(ch) == CHOOSE v \in 0..9 : DigitChars[v + 1] = ch

AllDigits(str) == \A k \in DOMAIN str : str[k] \in Range(DigitChars)

\* a number of 1..50 in decimal, without leading zero
Decimal(n) ==
    IF n < 10 THEN << DigitChars[n + 1] >>
    ELSE << DigitChars[(n \div 10) + 1], DigitChars[(n % 10) + 1] >>

\* what the chunk c1 c2 c3 c4 c5 must give
ChunkSurvives(c) ==
    /\ DigitValue(c[5]) \in { 1, 2, 3, 4, 6, 7, 8, 9 }
    /\ DigitValue(c[2]) \in 1..4
    /\ (DigitValue(c[3]) * 10 + DigitValue(c[4])) \in 1..50

ChunkFragment(c) ==
    LET table == IF DigitValue(c[5]) \in 1..4
                 THEN << "e","A","B","C","D","E","F","G","H","I" >>
                 ELSE << "p","J","K","L","M","N","O","P","Q","R" >>
        symbol == table[DigitValue(c[1]) + 1]
        set == IF symbol = "e" THEN << "e","x" >>
               ELSE IF symbol = "p" THEN << "p","r","m" >>
               ELSE << symbol >>
        type == << "A","S","M","D" >>[DigitValue(c[2])]
    IN  set \o << type, "-" >> \o Decimal(DigitValue(c[3]) * 10 + DigitValue(c[4]))

ChunkCount(c) == DigitValue(c[5]) % 5

\* C3: a chunk of five digits survives exactly when c5 is in {1,2,3,4,6,7,8,9},
\* c2 is in 1..4 and c3*10+c4 is in 1..50; it then yields set+type+"-"+number
\* from Table A (c5 in 1..4) or Table B (c5 in 6..9), c5 mod 5 times (1..4
\* times); every other chunk is dropped without error.  "11111" gives "AA-11"
\* once, "41371" gives "DA-37" once, "26097" is dropped.
C3_ChunkExpansion ==
    (Len(finalNumericString) = 5 /\ AllDigits(finalNumericString)) =>
        LET c == finalNumericString
        IN  /\ pc # "thrown"
            /\ (pc = "chunks" /\ i = 5) \/ pc \in { "output", "returned" } =>
                   decodedEntries =
                       IF ChunkSurvives(c)
                       THEN << [ cardIdPart |-> ChunkFragment(c),
                                 originalC5Value |-> DigitValue(c[5]) ] >>
                       ELSE << >>
            /\ pc = "returned" =>
                   /\ result = "ok"
                   /\ deckListOutput =
                          IF ChunkSurvives(c)
                          THEN [ k \in 1..ChunkCount(c) |-> ChunkFragment(c) ]
                          ELSE << >>
                   /\ ChunkSurvives(c) => ChunkCount(c) \in 1..4
                   /\ c = << "1","1","1","1","1" >> =>
                          deckListOutput = << << "A","A","-","1","1" >> >>
                   /\ c = << "4","1","3","7","1" >> =>
                          deckListOutput = << << "D","A","-","3","7" >> >>
                   /\ c = << "2","6","0","9","7" >> => deckListOutput = << >>

C3_Witness ==
    /\ pc = "returned"
    /\ finalNumericString = << "4","1","3","7","1" >>
    /\ deckListOutput = << << "D","A","-","3","7" >> >>

\* the chunks of the final digit string, decoded one by one
NumChunks == Len(finalNumericString) \div 5
ChunkAt(k) == ChunkDecode(SubSeq(finalNumericString, 5 * k - 4, 5 * k))
CountAt(k) == IF ChunkAt(k).survives THEN ChunkAt(k).originalC5Value % 5 ELSE 0

RECURSIVE CopiesBefore(_)
CopiesBefore(k) == IF k <= 1 THEN 0 ELSE CopiesBefore(k - 1) + CountAt(k - 1)

\* C4: the returned sequence is the concatenation, in chunk order, of each
\* surviving chunk's fragment repeated c5 mod 5 times: the copies of a chunk are
\* contiguous, earlier chunks come first, a dropped chunk contributes nothing and
\* the length is the sum of the counts.
C4_OutputAssembly ==
    pc = "returned" =>
        /\ result = "ok"
        /\ Len(deckListOutput) = CopiesBefore(NumChunks + 1)
        /\ \A k \in 1..NumChunks : \A j \in 1..CountAt(k) :
               deckListOutput[CopiesBefore(k) + j] = ChunkAt(k).cardIdPart

C4_Witness ==
    /\ pc = "returned"
    /\ NumChunks = 2
    /\ CountAt(1) > 1
    /\ CountAt(2) > 0
    /\ CountAt(1) # CountAt(2)
    /\ ChunkAt(1).cardIdPart # ChunkAt(2).cardIdPart

\* C5: a well-formed input never ends in an error: the decoder runs to its
\* return, the final digit string always has a length that is a multiple of 5,
\* and the result is the empty sequence when no chunk survives.
C5_WellFormedSucceeds ==
    WellFormed =>
        /\ pc # "thrown"
        /\ result # "error"
        /\ pc \in { "chunks", "output", "returned" } =>
               Len(finalNumericString) % 5 = 0
        /\ pc = "returned" =>
               /\ result = "ok"
               /\ decodedEntries = << >> => deckListOutput = << >>

C5_Witness ==
    /\ WellFormed
    /\ pc = "returned"
    /\ result = "ok"
    /\ Len(intermediateString) % 5 # 0
    /\ finalNumericString # << >>
    /\ deckListOutput = << >>

\* C6 as stated: the ten-bit group "0111101000" is the value 500, n = 0, and
\* its token is two placeholder characters followed by the digit 0.
C6_Original ==
    tenBitChunk = << "0","1","1","1","1","0","1","0","0","0" >> =>
        /\ signedDecimalVal = 500
        /\ nVal = 0
        /\ formattedNVal = << "X","X","0" >>

\* C6 amended: the ten-bit group "0111110100" is the unsigned value 500 with
\* leading bit 0, so n = 0 and its token is two placeholder characters followed
\* by the digit 0; the group "0111101000" is the value 488, so n = 12 and its
\* token is one placeholder character followed by 12.
C6_Group500 ==
    /\ tenBitChunk = << "0","1","1","1","1","1","0","1","0","0" >> =>
        /\ signedDecimalVal = 500
        /\ nVal = 0
        /\ formattedNVal = << "X","X","0" >>
    /\ tenBitChunk = << "0","1","1","1","1","0","1","0","0","0" >> =>
        /\ signedDecimalVal = 488
        /\ nVal = 12
        /\ formattedNVal = << "X","1","2" >>

C6_Witness ==
    /\ tenBitChunk = << "0","1","1","1","1","1","0","1","0","0" >>
    /\ intermediateString = << "X","X","0" >>

\* the padding descriptor's 1-based position in the alphabet, and the data after it
DescriptorPosition == CHOOSE N \in 1..64 : CHAR_MAP[N] = deckCode[5]
DataLength == Len(deckCode) - 5
DataBit(k) ==
    LET value == (CHOOSE N \in 1..64 : CHAR_MAP[N] = deckCode[6 + ((k - 1) \div 6)]) - 1
        shift == 5 - ((k - 1) % 6)
    IN  IF (value \div (2 ^ shift)) % 2 = 1 THEN "1" ELSE "0"

TrimP1(N) == IF N % 8 = 0 THEN 0 ELSE 8 - ((N \div 8) + 1)
TrimP2(N) == (8 - (N % 8)) % 8

\* C7: the bit string handed to ten-bit decoding is the concatenation of the
\* 6-bit binary alphabet positions of the characters after the descriptor, less
\* its last trim bits, trim by Strategy P1; it is empty when trim exceeds its length.
C7_BitAssembly ==
    (WellFormed /\ pc \notin { "validate", "padding", "bits", "unpad" }) =>
        LET trim == TrimP1(DescriptorPosition)
            total == 6 * DataLength
            kept == IF trim > total THEN 0 ELSE total - trim
        IN  /\ Len(processedBinaryPayload) = kept
            /\ \A k \in 1..kept : processedBinaryPayload[k] = DataBit(k)

C7_Witness ==
    /\ pc = "groups"
    /\ charsToRemoveFromPayloadEnd = 7
    /\ Len(initialBinaryPayload) = 6
    /\ processedBinaryPayload = << >>

\* C8 as stated: the code's trim equals the Strategy P2 value only when
\* N mod 8 is 1 or 0, and differs for every other N; for N = 5 it is 7, P2 gives 3.
C8_Original ==
    (WellFormed /\ pc \notin { "validate", "padding" }) =>
        LET N == DescriptorPosition
        IN  /\ (charsToRemoveFromPayloadEnd = TrimP2(N)) <=> (N % 8 \in { 0, 1 })
            /\ N = 5 => charsToRemoveFromPayloadEnd = 7 /\ TrimP2(N) = 3

\* C8 amended: the code's trim equals the Strategy P2 value exactly when
\* N mod 8 = 0 or N mod 8 = floor(N/8) + 1 (N = 1, 10, 19, 28, 37, 46, 55 and the
\* multiples of 8), and differs for every other N; for N = 5 it is 7, P2 gives 3.
C8_TrimAgreement ==
    (WellFormed /\ pc \notin { "validate", "padding" }) =>
        LET N == DescriptorPosition
        IN  /\ (charsToRemoveFromPayloadEnd = TrimP2(N))
                   <=> (N % 8 = 0 \/ N % 8 = (N \div 8) + 1)
            /\ (N % 8 = 0 \/ N % 8 = (N \div 8) + 1)
                   <=> (N \in { 1, 10, 19, 28, 37, 46, 55 } \/ N % 8 = 0)
            /\ N = 5 => charsToRemoveFromPayloadEnd = 7 /\ TrimP2(N) = 3

C8_Witness ==
    /\ pc = "bits"
    /\ DescriptorPosition = 10
    /\ charsToRemoveFromPayloadEnd = 6
    /\ TrimP2(10) = 6

\* positions of the placeholders of the digit string, and its trailing run of them
PlaceholderPositions(str) == { k \in DOMAIN str : str[k] = "X" }
TrailingRun(str) ==
    { k \in DOMAIN str : \A j \in k..Len(str) : str[j] = "X" }

\* str without the positions in gone, the others in their order
RECURSIVE Without(_, _)
Without(str, gone) ==
    IF str = << >> THEN << >>
    ELSE Without(SubSeq(str, 1, Len(str) - 1), gone)
         \o (IF Len(str) \in gone THEN << >> ELSE << str[Len(str)] >>)

\* the m last positions of a set of positions
LastOf(positions, m) ==
    { k \in positions : Cardinality({ j \in positions : j > k }) < m }

\* removal of r characters: the last placeholders among candidates, up to r of
\* them, then trailing characters for the remainder
TrimFrom(str, candidates, r) ==
    LET taken == LastOf(candidates, r)
        rest == Without(str, taken)
    IN  SubSeq(rest, 1, Len(rest) - (r - Cardinality(taken)))

AdjustmentDone == pc \in { "chunks", "output", "returned" }

\* C9 as stated: the placeholders removed are taken from the trailing run of
\* the digit string, and real trailing characters are dropped when that run
\* holds fewer than r placeholders.
C9_Original ==
    AdjustmentDone =>
        LET r == Len(intermediateString) % 5
        IN  /\ adjustedString =
                   TrimFrom(intermediateString, TrailingRun(intermediateString), r)
            /\ finalNumericString =
                   [ k \in DOMAIN adjustedString |->
                       IF adjustedString[k] = "X" THEN "0" ELSE adjustedString[k] ]

\* C9 amended: with r = length mod 5, trimming removes exactly r characters:
\* the last placeholders of the whole digit string, wherever they stand, up to r
\* of them, and real trailing characters only for the remainder when the whole
\* string holds fewer than r placeholders; the other characters keep their order,
\* and only afterwards is every remaining placeholder replaced by 0.  When r = 0
\* nothing is removed.
C9_DigitTrimming ==
    AdjustmentDone =>
        LET r == Len(intermediateString) % 5
        IN  /\ Len(adjustedString) = Len(intermediateString) - r
            /\ adjustedString =
                   TrimFrom(intermediateString, PlaceholderPositions(intermediateString), r)
            /\ r = 0 => adjustedString = intermediateString
            /\ finalNumericString =
                   [ k \in DOMAIN adjustedString |->
                       IF adjustedString[k] = "X" THEN "0" ELSE adjustedString[k] ]

C9_Witness ==
    /\ AdjustmentDone
    /\ Len(intermediateString) % 5 = 2
    /\ Cardinality(PlaceholderPositions(intermediateString)) = 1
    /\ intermediateString[1] = "X"
    /\ adjustedString[1] # "X"
    /\ Len(adjustedString) >= 5

\* C10: once a call of loadCardImage has completed, imageCache holds at most
\* MAX_IMAGE_CACHE entries, and pendingLoads holds no path whose load has completed.
C10_CacheBounded ==
    lastOutcome # "none" =>
        /\ Len(imageCache) <= MAX_IMAGE_CACHE
        /\ \A abs \in pendingLoads :
               \E c \in Callers :
                   /\ calls[c].path = abs
                   /\ calls[c].pc \in { "awaitLoad", "awaitPlaceholder" }

=============================================================================
